---- MODULE Spec2Model ----
(***************************************************************************)
(* Bounded two-dimensional point (src/src/lib.rs): PointBuilder, Point,    *)
(* checked and unchecked arithmetic, cardinal neighbours.                  *)
(*                                                                         *)
(* A caller holds one PointBuilder and one current Point (`self`, the      *)
(* receiver of every method call).  Each action is one call of the public  *)
(* API; `op`, `other`, `out`, `nbrs` and `fault` record the call, its      *)
(* right-hand operand and what it returned.  Take is the caller going on   *)
(* with a returned Point as its current Point, Keep with the one it has,   *)
(* so that calls can be chained.  `origin` is a history variable: how the  *)
(* Point at the root of the current chain of checked calls was made.       *)
(***************************************************************************)
EXTENDS Integers, Sequences, FiniteSets

\* usize::MAX of the modelled machine word (the arithmetic is modulo UsizeMax + 1).
UsizeMax == 3

Usize == 0..UsizeMax

VARIABLES
    builder,          \* the caller's PointBuilder(x_bound, y_bound)
    overflow_checks,  \* build profile: are `+`/`-` compiled with overflow checks
    self,             \* the caller's current Point, receiver of the calls
    other,            \* <<right-hand operand>> of the last call, <<>> if it had none
    op,               \* name of the last call
    out,              \* Option<Point> returned by the last call: <<>> or <<point>>
    nbrs,             \* Vec<Point> returned by the last check_neighbors
    fault,            \* "none", or the fatal failure that ended the program
    origin            \* where self comes from, through checked calls only:
                      \* "build_in" / "build_out" (a build with coordinates
                      \* below / not below the bounds), "default", "unchecked"

vars == <<builder, overflow_checks, self, other, op, out, nbrs, fault, origin>>

----------------------------------------------------------------------------
\* Option<T> as a sequence of length at most one.
None == <<>>
Some(v) == <<v>>
IsSome(o) == o # <<>>

\* struct PointBuilder(usize, usize)
PointBuilder(x, y) == [x_bound |-> x, y_bound |-> y]

\* struct Point(usize, usize, usize, usize): x, y, x_bound, y_bound
Point(x, y, xb, yb) == [x |-> x, y |-> y, x_bound |-> xb, y_bound |-> yb]

\* PointBuilder::build
build_swapped(b, x, y) == Point(x, y, b.y_bound, b.x_bound)
build(b, x, y) == Point(x, y, b.x_bound, b.y_bound)

\* Default for Point
default == Point(0, 0, 0, 0)

\* usize::checked_add, usize::checked_sub
usize_checked_add(a, b) == IF a + b > UsizeMax THEN None ELSE Some(a + b)
usize_checked_sub(a, b) == IF a < b THEN None ELSE Some(a - b)

\* Option::zip
zip(a, b) == IF IsSome(a) /\ IsSome(b) THEN Some(<<a[1], b[1]>>) ELSE None

\* Point::checked_add: zip the two checked sums, map to a Point with self's
\* bounds, filter on x < self.2 && y < self.3.
checked_add_le(slf, oth) ==
    LET z == zip(usize_checked_add(slf.x, oth.x), usize_checked_add(slf.y, oth.y))
        m == IF IsSome(z) THEN Some(Point(z[1][1], z[1][2], slf.x_bound, slf.y_bound))
                          ELSE None
    IN  IF IsSome(m) /\ m[1].x <= slf.x_bound /\ m[1].y <= slf.y_bound THEN m ELSE None
checked_add_other_bounds(slf, oth) ==
    LET z == zip(usize_checked_add(slf.x, oth.x), usize_checked_add(slf.y, oth.y))
        m == IF IsSome(z) THEN Some(Point(z[1][1], z[1][2], slf.x_bound, slf.y_bound))
                          ELSE None
    IN  IF IsSome(m) /\ m[1].x < oth.x_bound /\ m[1].y < oth.y_bound THEN m ELSE None
checked_add_no_filter(slf, oth) ==
    LET z == zip(usize_checked_add(slf.x, oth.x), usize_checked_add(slf.y, oth.y))
    IN  IF IsSome(z) THEN Some(Point(z[1][1], z[1][2], slf.x_bound, slf.y_bound))
                     ELSE None
checked_add(slf, oth) ==
    LET z == zip(usize_checked_add(slf.x, oth.x), usize_checked_add(slf.y, oth.y))
        m == IF IsSome(z) THEN Some(Point(z[1][1], z[1][2], slf.x_bound, slf.y_bound))
                          ELSE None
    IN  IF IsSome(m) /\ m[1].x < slf.x_bound /\ m[1].y < slf.y_bound THEN m ELSE None

\* Point::checked_sub: zip the two checked differences, map to a Point with
\* self's bounds; no filter.
checked_sub_filtered(slf, oth) ==
    LET z == zip(usize_checked_sub(slf.x, oth.x), usize_checked_sub(slf.y, oth.y))
        m == IF IsSome(z) THEN Some(Point(z[1][1], z[1][2], slf.x_bound, slf.y_bound))
                          ELSE None
    IN  IF IsSome(m) /\ m[1].x < slf.x_bound /\ m[1].y < slf.y_bound THEN m ELSE None
checked_sub_zero_bounds(slf, oth) ==
    LET z == zip(usize_checked_sub(slf.x, oth.x), usize_checked_sub(slf.y, oth.y))
    IN  IF IsSome(z) THEN Some(Point(z[1][1], z[1][2], oth.x_bound, oth.y_bound))
                     ELSE None
checked_sub(slf, oth) ==
    LET z == zip(usize_checked_sub(slf.x, oth.x), usize_checked_sub(slf.y, oth.y))
    IN  IF IsSome(z) THEN Some(Point(z[1][1], z[1][2], slf.x_bound, slf.y_bound))
                     ELSE None

\* The unit steps built inside north/south/east/west.
step_y == Point(0, 1, 0, 0)
step_x == Point(1, 0, 0, 0)

\* Point::north, south, east, west
north_on_x(slf) == checked_add(slf, step_x)
north(slf) == checked_add(slf, step_y)
south(slf) == checked_sub(slf, step_y)
east(slf) == checked_add(slf, step_x)
west(slf) == checked_sub(slf, step_x)

\* Point::check_neighbors: the Vec after the four conditional pushes.
push_if_some(rtn, o) == IF IsSome(o) THEN Append(rtn, o[1]) ELSE rtn
check_neighbors_west_first(slf) ==
    push_if_some(push_if_some(push_if_some(push_if_some(<<>>,
        west(slf)), south(slf)), east(slf)), north(slf))
check_neighbors(slf) ==
    push_if_some(push_if_some(push_if_some(push_if_some(<<>>,
        north(slf)), south(slf)), east(slf)), west(slf))

\* `a + b` and `a - b` on usize: the value when the operation does not fault
\* (two's-complement wrap when compiled without overflow checks).
usize_add_saturating(a, b) == IF a + b > UsizeMax THEN UsizeMax ELSE a + b
usize_add(a, b) == (a + b) % (UsizeMax + 1)
usize_sub(a, b) == (a - b + UsizeMax + 1) % (UsizeMax + 1)
add_overflows(slf, oth) == slf.x + oth.x > UsizeMax \/ slf.y + oth.y > UsizeMax
sub_overflows(slf, oth) == slf.x < oth.x \/ slf.y < oth.y

\* impl Add for Point, impl Sub for Point: the returned Point.
add(slf, oth) ==
    Point(usize_add(slf.x, oth.x), usize_add(slf.y, oth.y), slf.x_bound, slf.y_bound)
sub(slf, oth) ==
    Point(usize_sub(slf.x, oth.x), usize_sub(slf.y, oth.y), slf.x_bound, slf.y_bound)

----------------------------------------------------------------------------
\* Right-hand operands a caller can pass: built by its builder, or with zero bounds.
Operands ==
    {build(builder, x, y) : x \in Usize, y \in Usize}
        \cup {Point(x, y, 0, 0) : x \in Usize, y \in Usize}

\* The calls after which the caller holds a Point and no pending result.
Idle == {"build", "default", "take"}

\* The program has not been ended by a fault and the caller can make a call.
Ready == fault = "none" /\ op \in Idle

Init ==
    /\ builder \in {PointBuilder(x, y) : x \in Usize, y \in Usize}
    /\ overflow_checks \in BOOLEAN
    /\ self = default
    /\ other = <<>>
    /\ op = "default"
    /\ out = Some(default)
    /\ nbrs = <<>>
    /\ fault = "none"
    /\ origin = "default"

\* let p = builder.build(x, y)
Build ==
    /\ Ready
    /\ \E x \in Usize, y \in Usize :
         /\ self' = build(builder, x, y)
         /\ out' = Some(build(builder, x, y))
         /\ origin' = IF x < builder.x_bound /\ y < builder.y_bound
                         THEN "build_in" ELSE "build_out"
    /\ op' = "build"
    /\ other' = <<>>
    /\ nbrs' = <<>>
    /\ UNCHANGED <<builder, overflow_checks, fault>>

\* let p = Point::default()
Default ==
    /\ Ready
    /\ op # "default"
    /\ self' = default
    /\ out' = Some(default)
    /\ origin' = "default"
    /\ op' = "default"
    /\ other' = <<>>
    /\ nbrs' = <<>>
    /\ UNCHANGED <<builder, overflow_checks, fault>>

\* A call of a method returning Option<Point>.
Returns(name, oth, result) ==
    /\ op' = name
    /\ other' = Some(oth)
    /\ out' = result
    /\ nbrs' = <<>>
    /\ UNCHANGED <<builder, overflow_checks, self, fault, origin>>

CheckedAdd ==
    Ready /\ \E o \in Operands : Returns("checked_add", o, checked_add(self, o))
CheckedSub ==
    Ready /\ \E o \in Operands : Returns("checked_sub", o, checked_sub(self, o))
North == Ready /\ Returns("north", step_y, north(self))
South == Ready /\ Returns("south", step_y, south(self))
East == Ready /\ Returns("east", step_x, east(self))
West == Ready /\ Returns("west", step_x, west(self))

\* self.check_neighbors(): panics when the Vec is empty.
CheckNeighbors ==
    /\ Ready
    /\ op' = "check_neighbors"
    /\ other' = <<>>
    /\ out' = None
    /\ IF check_neighbors(self) = <<>>
         THEN nbrs' = <<>> /\ fault' = "panic"
         ELSE nbrs' = check_neighbors(self) /\ fault' = "none"
    /\ UNCHANGED <<builder, overflow_checks, self, origin>>

\* self + other, self - other: an arithmetic fault when an axis leaves the
\* usize range and overflow checks are compiled in, the wrapped value otherwise.
Unchecked(name, oth, overflows, result) ==
    /\ op' = name
    /\ other' = Some(oth)
    /\ nbrs' = <<>>
    /\ IF overflows /\ overflow_checks
         THEN out' = None /\ fault' = "overflow"
         ELSE out' = Some(result) /\ fault' = "none"
    /\ UNCHANGED <<builder, overflow_checks, self, origin>>

Add ==
    Ready /\ \E o \in Operands : Unchecked("add", o, add_overflows(self, o), add(self, o))
Sub ==
    Ready /\ \E o \in Operands : Unchecked("sub", o, sub_overflows(self, o), sub(self, o))

\* The caller goes on with a returned Point: let p = result.
Take ==
    /\ fault = "none"
    /\ op \notin Idle
    /\ \E q \in {out[i] : i \in 1..Len(out)} \cup {nbrs[i] : i \in 1..Len(nbrs)} :
         self' = q
    /\ origin' = IF op \in {"add", "sub"} THEN "unchecked" ELSE origin
    /\ op' = "take"
    /\ other' = <<>>
    /\ out' = None
    /\ nbrs' = <<>>
    /\ UNCHANGED <<builder, overflow_checks, fault>>

\* The caller drops the result and goes on with the Point it has (Point is
\* Copy: the call did not consume the receiver).
Keep ==
    /\ fault = "none"
    /\ op \notin Idle
    /\ op' = "take"
    /\ other' = <<>>
    /\ out' = None
    /\ nbrs' = <<>>
    /\ UNCHANGED <<builder, overflow_checks, self, fault, origin>>

Next ==
    \/ Build
    \/ Default
    \/ CheckedAdd
    \/ CheckedSub
    \/ North
    \/ South
    \/ East
    \/ West
    \/ CheckNeighbors
    \/ Add
    \/ Sub
    \/ Take
    \/ Keep

Spec == Init /\ [][Next]_vars

----------------------------------------------------------------------------
\* The soft invariant of a Point: both coordinates below its own bounds.
InBounds(pt) == pt.x < pt.x_bound /\ pt.y < pt.y_bound

SameBounds(pt, qt) == pt.x_bound = qt.x_bound /\ pt.y_bound = qt.y_bound

CheckedOps == {"checked_add", "checked_sub", "north", "south", "east", "west"}

\* C1, as stated: every Point produced by PointBuilder::build or by a checked
\* operation returning Some satisfies x < x_bound and y < y_bound.
C1_AllProducedInBounds ==
    origin \in {"build_in", "build_out"} =>
        /\ InBounds(self)
        /\ (op \in {"build"} \cup CheckedOps /\ IsSome(out)) => InBounds(out[1])

\* C1, amended: build(x, y) yields an in-bounds Point exactly when x and y are
\* below the builder's bounds; checked_add, north and east returning Some
\* yield an in-bounds Point for any receiver; checked_sub, south and west
\* returning Some yield an in-bounds Point when the receiver is in bounds;
\* so every Point reached from a build with coordinates below the bounds by
\* checked operations is in bounds, and so is what they return.
C1_ProducedInBounds ==
    /\ origin = "build_in" =>
          /\ InBounds(self)
          /\ (op \in CheckedOps /\ IsSome(out)) => InBounds(out[1])
    /\ op = "build" =>
          (InBounds(out[1]) <=>
              (out[1].x < builder.x_bound /\ out[1].y < builder.y_bound))
    /\ (op \in {"checked_add", "north", "east"} /\ IsSome(out)) => InBounds(out[1])
    /\ (op \in {"checked_sub", "south", "west"} /\ IsSome(out) /\ InBounds(self))
          => InBounds(out[1])

C1_Witness ==
    /\ origin = "build_in"
    /\ op = "south"
    /\ IsSome(out)
    /\ out[1].x > 0
    /\ builder.x_bound # builder.y_bound

\* C2: checked_add returns Some exactly when neither axis overflows usize and
\* both sums are below self's bounds; the result then has the two sums as
\* coordinates, so no returned coordinate is at or above self's bound.
C2_CheckedAdd ==
    op = "checked_add" =>
        LET sx == self.x + other[1].x
            sy == self.y + other[1].y
            fits == /\ sx <= UsizeMax
                    /\ sy <= UsizeMax
                    /\ sx < self.x_bound
                    /\ sy < self.y_bound
        IN  /\ IsSome(out) <=> fits
            /\ IsSome(out) =>
                  /\ out[1].x = sx
                  /\ out[1].y = sy
                  /\ out[1].x < self.x_bound
                  /\ out[1].y < self.y_bound

C2_Witness ==
    /\ op = "checked_add"
    /\ IsSome(out)
    /\ other[1].x > 0
    /\ other[1].y > 0

\* C3: checked_sub returns None exactly when self.x < other.x or
\* self.y < other.y; otherwise Some of the two differences, with no
\* upper-bound check on them.
C3_CheckedSub ==
    op = "checked_sub" =>
        LET under == self.x < other[1].x \/ self.y < other[1].y
        IN  /\ (out = None) <=> under
            /\ ~under =>
                  /\ out[1].x = self.x - other[1].x
                  /\ out[1].y = self.y - other[1].y

C3_Witness ==
    /\ op = "checked_sub"
    /\ IsSome(out)
    /\ other[1].x > 0
    /\ ~InBounds(out[1])

\* C4: on an in-bounds Point each cardinal step returns Some exactly when the
\* stepped coordinate stays in [0, bound), with the stepped coordinate moved
\* by one and the other axis unchanged.
C4_CardinalSteps ==
    InBounds(self) =>
        /\ op = "north" =>
              /\ IsSome(out) <=> self.y + 1 < self.y_bound
              /\ IsSome(out) => (out[1].x = self.x /\ out[1].y = self.y + 1)
        /\ op = "south" =>
              /\ IsSome(out) <=> self.y >= 1
              /\ IsSome(out) => (out[1].x = self.x /\ out[1].y = self.y - 1)
        /\ op = "east" =>
              /\ IsSome(out) <=> self.x + 1 < self.x_bound
              /\ IsSome(out) => (out[1].x = self.x + 1 /\ out[1].y = self.y)
        /\ op = "west" =>
              /\ IsSome(out) <=> self.x >= 1
              /\ IsSome(out) => (out[1].x = self.x - 1 /\ out[1].y = self.y)

C4_Witness ==
    /\ op = "north"
    /\ InBounds(self)
    /\ IsSome(out)
    /\ self.x > 0

\* C5: check_neighbors panics exactly when all four directions are None;
\* otherwise it returns exactly the Some results in the order north, south,
\* east, west (between 1 and 4 elements).
C5_CheckNeighbors ==
    op = "check_neighbors" =>
        LET n == north(self)
            s == south(self)
            e == east(self)
            w == west(self)
        IN  /\ (fault = "panic") <=> (n = None /\ s = None /\ e = None /\ w = None)
            /\ fault # "panic" =>
                  /\ nbrs = n \o s \o e \o w
                  /\ Len(nbrs) \in 1..4

C5_Witness ==
    /\ op = "check_neighbors"
    /\ Len(nbrs) = 4

\* C6: for an in-bounds Point p, if p.north() is Some(q) and q.south() is
\* Some(r) then r = p in all four fields; likewise east then west.
C6_RoundTrip ==
    InBounds(self) =>
        /\ (op = "north" /\ IsSome(out) /\ IsSome(south(out[1])))
              => south(out[1]) = Some(self)
        /\ (op = "east" /\ IsSome(out) /\ IsSome(west(out[1])))
              => west(out[1]) = Some(self)

C6_Witness ==
    /\ op = "east"
    /\ InBounds(self)
    /\ IsSome(out)
    /\ IsSome(west(out[1]))
    /\ self.x_bound # self.y_bound

\* The plain sum or difference Point with self's bounds.
PlainSum(slf, oth) == Point(slf.x + oth.x, slf.y + oth.y, slf.x_bound, slf.y_bound)
PlainDiff(slf, oth) == Point(slf.x - oth.x, slf.y - oth.y, slf.x_bound, slf.y_bound)
LeavesRange(pt) == pt.x \notin Usize \/ pt.y \notin Usize
\* A coordinate outside 0..UsizeMax brought back modulo UsizeMax + 1.
Wrapped(v) == IF v > UsizeMax THEN v - (UsizeMax + 1) ELSE IF v < 0 THEN v + (UsizeMax + 1) ELSE v
WrappedPoint(pt) == Point(Wrapped(pt.x), Wrapped(pt.y), pt.x_bound, pt.y_bound)
Plain == IF op = "add" THEN PlainSum(self, other[1]) ELSE PlainDiff(self, other[1])

C8_OtherBoundsIgnored ==
    op \in {"checked_add", "checked_sub", "add", "sub"} =>
        /\ \A bx \in Usize, by \in Usize :
              LET other2 == Point(other[1].x, other[1].y, bx, by)
              IN  /\ op = "checked_add" => checked_add(self, other2) = out
                  /\ op = "checked_sub" => checked_sub(self, other2) = out
                  /\ (op = "add" /\ IsSome(out)) => add(self, other2) = out[1]
                  /\ (op = "sub" /\ IsSome(out)) => sub(self, other2) = out[1]
                  /\ op = "add" => (add_overflows(self, other2) /\ overflow_checks
                                        <=> fault = "overflow")
                  /\ op = "sub" => (sub_overflows(self, other2) /\ overflow_checks
                                        <=> fault = "overflow")
        /\ IsSome(out) => SameBounds(out[1], self)

C8_Witness ==
    /\ op = "checked_add"
    /\ IsSome(out)
    /\ ~SameBounds(other[1], self)
    /\ other[1].x > 0

\* C9: no Some result of north, south, east, west, checked_add or checked_sub
\* is out of bounds, whatever the receiver.
C9_NoSomeOutOfBounds ==
    (op \in CheckedOps /\ IsSome(out)) =>
        ~(out[1].x >= out[1].x_bound \/ out[1].y >= out[1].y_bound)

\* C10: from an in-bounds Point, every Point returned by a checked operation,
\* and every element returned by check_neighbors, is in bounds and has the
\* same bounds; so every Point reached from an in-bounds build by a sequence
\* of such calls is in bounds with the bounds it started with.
C10_Closure ==
    /\ origin = "build_in" => (InBounds(self) /\ SameBounds(self, builder))
    /\ InBounds(self) =>
        /\ (op \in CheckedOps /\ IsSome(out)) =>
              (InBounds(out[1]) /\ SameBounds(out[1], self))
        /\ op = "check_neighbors" =>
              \A i \in 1..Len(nbrs) :
                  InBounds(nbrs[i]) /\ SameBounds(nbrs[i], self)

C10_Witness ==
    /\ origin = "build_in"
    /\ op = "check_neighbors"
    /\ Len(nbrs) = 3
    /\ self.x = 0
    /\ self.y = 1

====
